---- MODULE Spec2Model ----
(***************************************************************************)
(* Model of scripts/convert-excel-to-json.py: the conversion of the        *)
(* PLACEMENTS worksheet into the publisher / adUnits mapping               *)
(* (convert_excel_to_json) and the command-line run around it (__main__).  *)
(***************************************************************************)
EXTENDS Integers, Sequences, FiniteSets, TLC

(***************************************************************************)
(* Cell values.  A cell value read from the worksheet is None, a string, an *)
(* int, a float or a bool.  Every value is a record with the same fields:   *)
(*   t : the Python type, s : the characters of a str,                      *)
(*   n : the int, the bool (0/1), or the float counted in tenths.           *)
(***************************************************************************)
NoneV == [t |-> "none", s |-> <<>>, n |-> 0]

StrV(chars) == [t |-> "str", s |-> chars, n |-> 0]

IntV(i) == [t |-> "int", s |-> <<>>, n |-> i]

FloatV(tenths) == [t |-> "float", s |-> <<>>, n |-> tenths]

BoolV(b) == [t |-> "bool", s |-> <<>>, n |-> IF b THEN 1 ELSE 0]

\* The characters str.strip() removes.
Whitespace == {" ", "\t", "\n"}

Digits == <<"0", "1", "2", "3", "4", "5", "6", "7", "8", "9">>

\* str(i) of a non-negative int: its decimal digits.
RECURSIVE DecStr(_)
DecStr(i) ==
    IF i < 10 THEN <<Digits[i + 1]>>
    ELSE DecStr(i \div 10) \o <<Digits[(i % 10) + 1]>>

\* str(i) of an int.
IntStr(i) == IF i < 0 THEN <<"-">> \o DecStr(-i) ELSE DecStr(i)

\* int(x) of a float held in tenths: truncation toward zero.
FloatToInt(tenths) ==
    IF tenths >= 0 THEN tenths \div 10 ELSE -((-tenths) \div 10)

\* str(x) of a float held in tenths: "2.5", "0.0", "-2.5".
FloatStr(tenths) ==
    LET a == IF tenths < 0 THEN -tenths ELSE tenths
    IN  (IF tenths < 0 THEN <<"-">> ELSE <<>>)
            \o DecStr(a \div 10) \o <<".">> \o <<Digits[(a % 10) + 1]>>

\* str(value)
Str(value) ==
    CASE value.t = "str"   -> value.s
      [] value.t = "int"   -> IntStr(value.n)
      [] value.t = "float" -> FloatStr(value.n)
      [] value.t = "bool"  -> IF value.n = 1 THEN <<"T", "r", "u", "e">>
                                             ELSE <<"F", "a", "l", "s", "e">>
      [] OTHER             -> <<"N", "o", "n", "e">>

\* s.lstrip() and s.rstrip(), then s.strip()
RECURSIVE LStrip(_)
LStrip(s) ==
    IF s = <<>> THEN <<>>
    ELSE IF Head(s) \in Whitespace THEN LStrip(Tail(s)) ELSE s

RECURSIVE RStrip(_)
RStrip(s) ==
    IF s = <<>> THEN <<>>
    ELSE IF s[Len(s)] \in Whitespace THEN RStrip(SubSeq(s, 1, Len(s) - 1)) ELSE s

Strip(s) == RStrip(LStrip(s))

\* bool(value): Python truthiness.
Truthy(value) ==
    CASE value.t = "none"  -> FALSE
      [] value.t = "str"   -> Len(value.s) > 0
      [] OTHER             -> value.n # 0

(***************************************************************************)
(* Bounds of the explored worksheets (inputs, not program constants).      *)
(***************************************************************************)
\* Sheets of shape "many": data in the last desktop row and the last
\* MaxMobileRows mobile rows, bidder cells in columns F .. MaxDataCol.
MaxMobileRows == 2

MaxDataCol == 10

\* Sheets of shape "rich": one data row with up to MaxCells bidder cells.
MaxCells == 2

(***************************************************************************)
(* Program constants.                                                       *)
(***************************************************************************)
\* range(a, b) as a list
Range(a, b) == [i \in 1..(b - a) |-> a + i - 1]

DesktopRows == Range(3, 14)

MobileRows == Range(19, 30)

\* list(range(3, 14)) + list(range(19, 30))
ScanRows == DesktopRows \o MobileRows

HeaderText == <<"S", "l", "o", "t", " ", "P", "a", "t", "t", "e", "r", "n">>

DefaultBidders ==
    <<"rubicon", "kargo", "sovrn", "oms", "aniview", "pubmatic", "triplelift">>

bidder_columns ==
    [rubicon    |-> [accountId |-> 6, siteId |-> 7, zoneId |-> 8,
                     bidonmultiformat |-> 9],
     kargo      |-> [placementId |-> 10],
     sovrn      |-> [tagid |-> 11],
     oms        |-> [publisherId |-> 12],
     aniview    |-> [publisherId |-> 14, channelId |-> 15],
     pubmatic   |-> [publisherId |-> 16, adSlot |-> 17],
     triplelift |-> [inventoryCode |-> 18]]

Bidders == DOMAIN bidder_columns

\* The mapping as constructed before the scan.
InitialMapping ==
    [publisher |-> [publisherId    |-> "icisic-media",
                    domain         |-> "totalprosports.com",
                    defaultBidders |-> DefaultBidders],
     adUnits   |-> <<>>]

\* No mapping object bound to the name yet.
NoMapping == [publisher |-> [publisherId |-> "", domain |-> "",
                             defaultBidders |-> <<>>],
              adUnits |-> <<>>]

(***************************************************************************)
(* One iteration of the row loop.  A row is the tuple of the cells of one   *)
(* worksheet row, max_column cells wide; adUnits is the insertion-ordered   *)
(* dict, a sequence of [slot, config] items.                                *)
(***************************************************************************)
\* tuple[i], zero-based; IndexError outside the tuple
TupleItem(tuple, i) == tuple[i + 1]

InRange(tuple, i) == 0 <= i /\ i < Len(tuple)

\* Faulty variant: the column number used as the tuple index.
ColumnIndexOffByOne(col_idx) == col_idx

\* the tuple index of 1-based column col_idx
ColumnIndex(col_idx) == col_idx - 1

\* row[col_idx - 1].value
CellValue(row, col_idx) == TupleItem(row, ColumnIndex(col_idx))

\* Faulty variant: the whitespace test dropped.
PresentNotNone(value) == value.t # "none"

\* value is not None and str(value).strip() != ""
Present(value) == value.t # "none" /\ Strip(Str(value)) # <<>>

\* Faulty variant: floats stored as read.
CoerceKeepFloat(param_name, value) ==
    IF param_name = "bidonmultiformat" THEN BoolV(Truthy(value)) ELSE value

\* The value stored for a present cell.
Coerce(param_name, value) ==
    IF value.t = "float" /\ param_name # "bidonmultiformat"
    THEN IntV(FloatToInt(value.n))
    ELSE IF param_name = "bidonmultiformat"
         THEN BoolV(Truthy(value))
         ELSE value

\* bidder_params after the inner loop over one bidder's columns
BidderParams(row, columns) ==
    [p \in {q \in DOMAIN columns : Present(CellValue(row, columns[q]))}
        |-> Coerce(p, CellValue(row, columns[p]))]

\* Faulty variant: every bidder recorded.
HasDataAlways(row, columns) == TRUE

\* has_data after the inner loop
HasData(row, columns) ==
    \E q \in DOMAIN columns : Present(CellValue(row, columns[q]))

\* ad_unit_config after the loop over the bidders
AdUnitConfig(row) ==
    [b \in {c \in Bidders : HasData(row, bidder_columns[c])}
        |-> BidderParams(row, bidder_columns[b])]

\* Faulty variant: only the header text skipped.
SkipHeaderOnly(slot) == slot = StrV(HeaderText)

\* not slot_pattern or slot_pattern == "Slot Pattern"
SkipRow(slot) == ~Truthy(slot) \/ slot = StrV(HeaderText)

\* Faulty variant: the duplicate test dropped.
NeverRecorded(slot, adUnits) == FALSE

\* slot_pattern in mapping["adUnits"]
AlreadyRecorded(slot, adUnits) ==
    \E i \in 1..Len(adUnits) : adUnits[i].slot = slot

\* adUnits[slot] = config for a dict: replace in place or append
SetItem(adUnits, slot, config) ==
    IF \E i \in 1..Len(adUnits) : adUnits[i].slot = slot
    THEN [i \in 1..Len(adUnits) |->
            IF adUnits[i].slot = slot
            THEN [slot |-> slot, config |-> config] ELSE adUnits[i]]
    ELSE Append(adUnits, [slot |-> slot, config |-> config])

\* Some configured column lies beyond the row tuple.
RaisesIndexError(row) ==
    \E b \in Bidders : \E p \in DOMAIN bidder_columns[b] :
        ~InRange(row, ColumnIndex(bidder_columns[b][p]))

\* Faulty variant: an ad unit recorded without bidder data.
NonEmptyDictAlways(d) == TRUE

\* if ad_unit_config: (a non-empty dict)
NonEmptyDict(d) == DOMAIN d # {}

\* Faulty variant: recording an ad unit narrows defaultBidders to the bidders in use.
RecordAndNarrow(m, slot, config) ==
    [m EXCEPT !.adUnits = SetItem(m.adUnits, slot, config),
              !.publisher.defaultBidders =
                  SelectSeq(m.publisher.defaultBidders,
                            LAMBDA b : b \in DOMAIN config)]

\* mapping["adUnits"][slot_pattern] = ad_unit_config
Record(m, slot, config) ==
    [m EXCEPT !.adUnits = SetItem(m.adUnits, slot, config)]

\* The body of the row loop: what it does to mapping and how it ends.
ProcessRow(row, m) ==
    LET slot   == TupleItem(row, 0)
        config == AdUnitConfig(row)
    IN  IF SkipRow(slot)
        THEN [outcome |-> "skipped", mapping |-> m]
        ELSE IF AlreadyRecorded(slot, m.adUnits)
        THEN [outcome |-> "duplicate", mapping |-> m]
        ELSE IF RaisesIndexError(row)
        THEN [outcome |-> "fault", mapping |-> m]
        ELSE IF NonEmptyDict(config)
        THEN [outcome |-> "recorded", mapping |-> Record(m, slot, config)]
        ELSE [outcome |-> "nodata", mapping |-> m]

(***************************************************************************)
(* The worksheets explored.                                                 *)
(***************************************************************************)
\* The last cell of a row tuple is column max_column of the sheet.  Sheets
\* whose used columns end just before and at the last configured column.
LastParamCol == bidder_columns["triplelift"]["inventoryCode"]

Widths == {LastParamCol - 1, LastParamCol}

SlotValues ==
    {NoneV, StrV(<<>>), StrV(HeaderText), StrV(<<"a">>), StrV(<<"b">>)}

DataValues ==
    {StrV(<<>>), StrV(<<" ">>), StrV(<<"7">>), IntV(0), FloatV(25),
     BoolV(FALSE)}

ParamCols ==
    UNION {{bidder_columns[b][p] : p \in DOMAIN bidder_columns[b]} : b \in Bidders}

\* A row of width w: slot in column A, cells[c] in each column c of cells,
\* None elsewhere.
MkRow(w, slot, cells) ==
    [i \in 1..w |-> IF i = 1 THEN slot
                    ELSE IF i \in DOMAIN cells THEN cells[i] ELSE NoneV]

BlankRow(w) == MkRow(w, NoneV, <<>>)

\* Shape "many": the last desktop row and the last MaxMobileRows mobile rows
\* may each hold a slot pattern and at most one bidder cell, in columns
\* F .. MaxDataCol, blank or not.
ManyRows ==
    {DesktopRows[Len(DesktopRows)]}
        \cup {MobileRows[i] :
                 i \in (Len(MobileRows) - MaxMobileRows + 1)..Len(MobileRows)}

ManyCells ==
    {<<>>} \cup UNION {[{c} -> {StrV(<<" ">>), StrV(<<"7">>)}] :
                         c \in {d \in ParamCols : d <= MaxDataCol}}

\* Shape "rich": only the last mobile row may hold data, a slot pattern and
\* up to MaxCells bidder cells of any type in any configured column.
RichCells(w) ==
    UNION {[S -> DataValues] :
             S \in {T \in SUBSET {c \in ParamCols : c <= w} :
                       Cardinality(T) <= MaxCells}}

\* The rows sheet[row_idx] may be, in a sheet max_column = w wide.
Rows(w, shape, row_idx) ==
    IF shape = "many" /\ row_idx \in ManyRows
    THEN {MkRow(w, slot, cells) : slot \in SlotValues, cells \in ManyCells}
    ELSE IF shape = "rich" /\ row_idx = MobileRows[Len(MobileRows)]
    THEN {MkRow(w, slot, cells) : slot \in SlotValues, cells \in RichCells(w)}
    ELSE {BlankRow(w)}

(***************************************************************************)
(* State.                                                                   *)
(***************************************************************************)
VARIABLES
    pc,            \* where the run is
    workbook,      \* the file at the fixed path: readable, has_sheet, and the
                   \* PLACEMENTS sheet's max_column and shape
    pos,           \* the row loop's position in ScanRows
    slot_pattern,  \* the local of the row loop
    mapping,       \* the local of convert_excel_to_json
    result,        \* mapping of __main__, bound when the function returns
    out_file,      \* the output file: opened, written, content
    stdout,        \* the lines printed
    exit_status,   \* the process's exit status, -1 while it runs
    first,         \* history: slot pattern -> first scanned row carrying it
    repeated,      \* history: slot patterns carried by more than one scanned row
    firstData,     \* history: slot pattern -> first scanned row carrying it
                   \* that has a non-empty bidder cell
    populated,     \* history: indices of the scanned rows with any cell set
    dataRows,      \* history: indices of the scanned rows that name a slot
                   \* and have a non-empty bidder cell
    producer,      \* history: slot pattern -> the row its adUnits entry was built from
    rowHadData,    \* history: the row just scanned had a non-empty bidder cell
    twin           \* a second conversion, of a sheet that agrees with the first
                   \* on the cells of columns A, F-L, N-R of the scanned rows

vars == <<pc, workbook, pos, slot_pattern, mapping, result, out_file, stdout,
          exit_status, first, repeated, firstData, populated, dataRows,
          producer, rowHadData, twin>>

history == <<first, repeated, firstData, populated, dataRows, producer,
             rowHadData>>

NoFile == [opened |-> FALSE, written |-> FALSE, content |-> NoMapping]

NoTwin == [pc |-> "none", max_column |-> 0, mapping |-> NoMapping,
           differs |-> FALSE]

Line(kind, n, items) == [line |-> kind, n |-> n, items |-> items]

Init ==
    /\ pc = "load"
    /\ workbook \in [readable : BOOLEAN, has_sheet : BOOLEAN,
                    max_column : Widths, shape : {"many", "rich"}]
    /\ pos = 1
    /\ slot_pattern = NoneV
    /\ mapping = NoMapping
    /\ result = NoMapping
    /\ out_file = NoFile
    /\ stdout = <<>>
    /\ exit_status = -1
    /\ first = <<>>
    /\ repeated = {}
    /\ firstData = <<>>
    /\ populated = {}
    /\ dataRows = {}
    /\ producer = <<>>
    /\ rowHadData = FALSE
    /\ twin = NoTwin

\* An unhandled exception: traceback on stderr, exit status 1.
Raise ==
    /\ pc' = "fault"
    /\ exit_status' = 1

\* load_workbook returns the workbook; it raises on an unreadable file
Loads(wb) == wb.readable

\* Faulty variant: a missing sheet goes unnoticed.
SheetAssumed(wb) == TRUE

\* wb['PLACEMENTS'] finds the sheet; it raises KeyError without one
SheetFound(wb) == wb.has_sheet

\* wb = load_workbook(excel_file, data_only=True)
LoadWorkbook ==
    /\ pc = "load"
    /\ IF Loads(workbook)
       THEN pc' = "get_sheet" /\ UNCHANGED exit_status
       ELSE Raise
    /\ UNCHANGED twin
    /\ UNCHANGED <<workbook, pos, slot_pattern, mapping, result, out_file,
                   stdout, history>>

\* sheet = wb['PLACEMENTS']
GetSheet ==
    /\ pc = "get_sheet"
    /\ IF SheetFound(workbook)
       THEN pc' = "build" /\ UNCHANGED exit_status
       ELSE Raise
    /\ UNCHANGED twin
    /\ UNCHANGED <<workbook, pos, slot_pattern, mapping, result, out_file,
                   stdout, history>>

\* mapping = {...}; bidder_columns = {...}
BuildMapping ==
    /\ pc = "build"
    /\ mapping' = InitialMapping
    /\ pos' = 1
    /\ pc' = "scan"
    /\ UNCHANGED twin
    /\ UNCHANGED <<workbook, slot_pattern, result, out_file, stdout,
                   exit_status, history>>

\* History of the scan, in the claims' terms.  A bidder cell is non-empty when
\* it is not None and not a whitespace-only string.
IsBlankString(value) ==
    value.t = "str" /\ \A i \in 1..Len(value.s) : value.s[i] \in Whitespace

NonEmptyCell(value) == value.t # "none" /\ ~IsBlankString(value)

RowHasData(row) ==
    \E c \in ParamCols : c <= Len(row) /\ NonEmptyCell(row[c])

\* A slot-pattern cell that names a slot: not empty, not the header text.
NamesSlot(slot) == slot \notin {NoneV, StrV(<<>>), StrV(HeaderText)}

\* f with key k bound to v
Bind(f, k, v) == [x \in DOMAIN f \cup {k} |-> IF x = k THEN v ELSE f[x]]

\* One iteration of: for row_idx in list(range(3, 14)) + list(range(19, 30))
ScanRow ==
    /\ pc = "scan"
    /\ pos <= Len(ScanRows)
    /\ \E row \in Rows(workbook.max_column, workbook.shape, ScanRows[pos]) :
         LET r    == ProcessRow(row, mapping)
             slot == row[1]
             here == [row_idx |-> ScanRows[pos], row |-> row]
         IN  /\ slot_pattern' = slot
             /\ IF r.outcome = "fault"
                THEN /\ Raise
                     /\ UNCHANGED <<mapping, pos, history>>
                ELSE /\ mapping' = r.mapping
                     /\ pos' = pos + 1
                     /\ rowHadData' = RowHasData(row)
                     /\ first' = IF NamesSlot(slot) /\ slot \notin DOMAIN first
                                 THEN Bind(first, slot, here) ELSE first
                     /\ repeated' = IF slot \in DOMAIN first
                                    THEN repeated \cup {slot} ELSE repeated
                     /\ firstData' = IF NamesSlot(slot) /\ RowHasData(row)
                                          /\ slot \notin DOMAIN firstData
                                     THEN Bind(firstData, slot, here)
                                     ELSE firstData
                     /\ populated' = IF \E c \in DOMAIN row : row[c] # NoneV
                                     THEN populated \cup {ScanRows[pos]}
                                     ELSE populated
                     /\ dataRows' = IF NamesSlot(slot) /\ RowHasData(row)
                                    THEN dataRows \cup {ScanRows[pos]}
                                    ELSE dataRows
                     /\ producer' = IF r.outcome = "recorded"
                                     THEN Bind(producer, slot, here)
                                     ELSE producer
                     /\ UNCHANGED <<pc, exit_status>>
    /\ UNCHANGED twin
    /\ UNCHANGED <<workbook, result, out_file, stdout>>

\* return mapping; the function's locals and the sheet go out of scope
Return ==
    /\ pc = "scan"
    /\ pos > Len(ScanRows)
    /\ result' = mapping
    /\ mapping' = NoMapping
    /\ slot_pattern' = NoneV
    /\ first' = <<>>
    /\ repeated' = {}
    /\ firstData' = <<>>
    /\ populated' = {}
    /\ dataRows' = {}
    /\ producer' = <<>>
    /\ rowHadData' = FALSE
    /\ pc' = "open"
    /\ UNCHANGED twin
    /\ UNCHANGED <<workbook, pos, out_file, stdout, exit_status>>

\* with open('config/bizbudding-all-bidders-mapping.json', 'w') as f:
OpenOutput ==
    /\ pc = "open"
    /\ out_file' = [opened |-> TRUE, written |-> FALSE, content |-> NoMapping]
    /\ pc' = "dump"
    /\ UNCHANGED twin
    /\ UNCHANGED <<workbook, pos, slot_pattern, mapping, result, stdout,
                   exit_status, history>>

\* json.dump(mapping, f, indent=2)
DumpJson ==
    /\ pc = "dump"
    /\ out_file' = [opened |-> TRUE, written |-> TRUE, content |-> result]
    /\ pc' = "summary"
    /\ UNCHANGED twin
    /\ UNCHANGED <<workbook, pos, slot_pattern, mapping, result, stdout,
                   exit_status, history>>

\* sorted(all_bidders): the bidder names in alphabetical order
Alphabetical ==
    <<"aniview", "kargo", "oms", "pubmatic", "rubicon", "sovrn", "triplelift">>

RECURSIVE Filter(_, _)
Filter(seq, set) ==
    IF seq = <<>> THEN <<>>
    ELSE (IF Head(seq) \in set THEN <<Head(seq)>> ELSE <<>>)
            \o Filter(Tail(seq), set)

AllBidders(adUnits) ==
    UNION {DOMAIN adUnits[i].config : i \in 1..Len(adUnits)}

\* The four print calls before the sample is looked up.
SummaryLines(m) ==
    <<Line("generated", 0, <<>>),
      Line("count", Len(m.adUnits), <<>>),
      Line("bidders", Cardinality(AllBidders(m.adUnits)),
           Filter(Alphabetical, AllBidders(m.adUnits))),
      Line("sample-header", 0, <<>>)>>

PrintSummary ==
    /\ pc = "summary"
    /\ stdout' = stdout \o SummaryLines(result)
    /\ pc' = "sample"
    /\ UNCHANGED twin
    /\ UNCHANGED <<workbook, pos, slot_pattern, mapping, result, out_file,
                   exit_status, history>>

\* first_slot = list(mapping['adUnits'].keys())[0] and the prints after it
PrintSample ==
    /\ pc = "sample"
    /\ IF InRange(result.adUnits, 0)
       THEN /\ stdout' = stdout \o
                   <<Line("sample", Cardinality(DOMAIN TupleItem(result.adUnits, 0).config),
                          TupleItem(result.adUnits, 0).slot.s)>>
            /\ pc' = "done"
            /\ exit_status' = 0
       ELSE Raise /\ UNCHANGED stdout
    /\ UNCHANGED twin
    /\ UNCHANGED <<workbook, pos, slot_pattern, mapping, result, out_file, history>>

Next ==
    \/ LoadWorkbook
    \/ GetSheet
    \/ BuildMapping
    \/ ScanRow
    \/ Return
    \/ OpenOutput
    \/ DumpJson
    \/ PrintSummary
    \/ PrintSample

Spec == Init /\ [][Next]_vars

(***************************************************************************)
(* Two conversions side by side.  The two worksheets agree on every cell of *)
(* columns A, F-L and N-R in rows 3-13 and 19-29 (a cell beyond a sheet's   *)
(* max_column is empty) and are free everywhere else, max_column included.  *)
(***************************************************************************)
\* Sheets whose used columns end before, at and after the last configured
\* column.
PairWidths == Widths \cup {LastParamCol + 1}

\* The cells C10 compares: columns A, F-L, N-R of rows 3-13 and 19-29.
ComparedCols == {1} \cup (6..12) \cup (14..18)

ComparedRows == (3..13) \cup (19..29)

CellOrNone(row, c) == IF c <= Len(row) THEN row[c] ELSE NoneV

\* The rows of width w that agree with row on the compared columns and hold
\* at most one cell elsewhere.
Variations(row, w) ==
    IF \E c \in ComparedCols : c > w /\ CellOrNone(row, c) # NoneV
    THEN {}
    ELSE {[i \in 1..w |-> IF i \in ComparedCols THEN CellOrNone(row, i)
                          ELSE IF i = k THEN StrV(<<"7">>) ELSE NoneV] :
            k \in {0} \cup ((1..w) \ ComparedCols)}

\* The rows the second sheet may hold where the first holds row.
TwinRows(row, w, shape, row_idx) ==
    IF row_idx \in ComparedRows
    THEN Variations(row, w)
    ELSE UNION {Variations(other, w) : other \in Rows(w, shape, row_idx)}

InitPair ==
    /\ pc = "scan"
    /\ workbook \in [readable : {TRUE}, has_sheet : {TRUE},
                      max_column : PairWidths, shape : {"many"}]
    /\ pos = 1
    /\ slot_pattern = NoneV
    /\ mapping = InitialMapping
    /\ result = NoMapping
    /\ out_file = NoFile
    /\ stdout = <<>>
    /\ exit_status = -1
    /\ first = <<>>
    /\ repeated = {}
    /\ firstData = <<>>
    /\ populated = {}
    /\ dataRows = {}
    /\ producer = <<>>
    /\ rowHadData = FALSE
    /\ twin \in [pc : {"scan"}, max_column : PairWidths,
                  mapping : {InitialMapping}, differs : {FALSE}]

\* One conversion's state after the loop body ran on row.
StepOf(run_pc, m, row) ==
    LET r == ProcessRow(row, m)
    IN  IF run_pc # "scan" THEN [pc |-> run_pc, mapping |-> m]
        ELSE IF r.outcome = "fault"
             THEN [pc |-> "fault", mapping |-> m]
             ELSE [pc |-> "scan", mapping |-> r.mapping]

\* Both conversions take one iteration of the row loop, each on its own sheet.
PairScanRow ==
    /\ pc \in {"scan", "fault"}
    /\ pos <= Len(ScanRows)
    /\ \E row \in Rows(workbook.max_column, workbook.shape, ScanRows[pos]) :
         \E row2 \in TwinRows(row, twin.max_column, workbook.shape, ScanRows[pos]) :
           LET a == StepOf(pc, mapping, row)
               b == StepOf(twin.pc, twin.mapping, row2)
           IN  /\ pc' = a.pc
               /\ mapping' = a.mapping
               /\ slot_pattern' = TupleItem(row, 0)
               /\ twin' = [twin EXCEPT !.pc = b.pc, !.mapping = b.mapping,
                                       !.differs = twin.differs \/
                                           \E k \in DOMAIN row2 \ ComparedCols :
                                               row2[k] # CellOrNone(row, k)]
    /\ pos' = pos + 1
    /\ UNCHANGED <<workbook, result, out_file, stdout, exit_status, history>>

\* Both loops are over: each conversion that did not fault returns its mapping.
PairReturn ==
    /\ pc \in {"scan", "fault"}
    /\ pos = Len(ScanRows) + 1
    /\ pc' = IF pc = "scan" THEN "returned" ELSE "faulted"
    /\ result' = IF pc = "scan" THEN mapping ELSE NoMapping
    /\ twin' = [twin EXCEPT !.pc = IF twin.pc = "scan" THEN "returned" ELSE "faulted"]
    /\ pos' = pos + 1
    /\ UNCHANGED <<workbook, slot_pattern, mapping, out_file, stdout,
                   exit_status, history>>

NextPair == PairScanRow \/ PairReturn

SpecPair == InitPair /\ [][NextPair]_vars
(***************************************************************************)
(* The claims.                                                              *)
(***************************************************************************)
\* The entries of a mapping's adUnits.
Entries(m) == {m.adUnits[i] : i \in 1..Len(m.adUnits)}

\* The worksheet row the adUnits entry e of the conversion was built from.
SourceRow(e) == producer[e.slot].row

\* The loop is over and the function is about to return mapping.
AtReturn == pc = "scan" /\ pos > Len(ScanRows)

\* C1 as stated: for every slot pattern carried by more than one scanned
\* row, the adUnits entry of that pattern is built from the first such row in
\* scan order, whatever its bidder cells hold, and never from a later row.
C1_FirstOccurrenceWins ==
    \A e \in Entries(mapping) :
        e.slot \in repeated => producer[e.slot].row_idx = first[e.slot].row_idx

\* C1 amended: for every slot pattern carried by more than one scanned row,
\* the adUnits entry of that pattern is built from the first such row that
\* has a non-empty bidder cell, and from no other row: its bidders are those
\* with a non-empty cell in that row.
C1_FirstDataOccurrenceWins ==
    \A e \in Entries(mapping) :
        e.slot \in repeated =>
            /\ e.slot \in DOMAIN firstData
            /\ producer[e.slot] = firstData[e.slot]
            /\ DOMAIN e.config =
                  {b \in Bidders : \E p \in DOMAIN bidder_columns[b] :
                      NonEmptyCell(firstData[e.slot].row[bidder_columns[b][p]])}

\* C1's case: a slot pattern whose first row has no bidder data, whose
\* second row was recorded and whose third row, with data too, was not.
C1_Witness ==
    \E e \in Entries(mapping) :
        /\ e.slot \in repeated
        /\ first[e.slot].row_idx < firstData[e.slot].row_idx
        /\ Cardinality(dataRows) = 2
        /\ Cardinality(DOMAIN first) = 1

\* C2: in every ad unit, a bidder's key is present exactly when one of the
\* bidder's configured cells in the row that produced the ad unit is
\* non-empty (not None, not a whitespace-only string).
C2_BidderKeyIffNonEmptyCell ==
    \A e \in Entries(mapping) : \A b \in Bidders :
        (b \in DOMAIN e.config)
            <=> (\E p \in DOMAIN bidder_columns[b] :
                    NonEmptyCell(SourceRow(e)[bidder_columns[b][p]]))

\* C2's case: rubicon is recorded from a row whose only non-empty cell is
\* bidonmultiformat = 0, beside a whitespace-only kargo cell that is not.
C2_Witness ==
    \E e \in Entries(mapping) :
        /\ SourceRow(e)[bidder_columns["rubicon"]["bidonmultiformat"]] = IntV(0)
        /\ SourceRow(e)[bidder_columns["kargo"]["placementId"]] = StrV(<<" ">>)
        /\ DOMAIN e.config = {"rubicon"}
        /\ e.config["rubicon"]["bidonmultiformat"] = BoolV(FALSE)

\* A string of decimal digits.
IsDigits(chars) ==
    chars # <<>> /\ \A i \in 1..Len(chars) : \E d \in 1..Len(Digits) : chars[i] = Digits[d]

\* A cell holding a number: an int, a float or a numeric-looking string.
NumericCell(value) ==
    value.t \in {"int", "float"} \/ (value.t = "str" /\ IsDigits(value.s))

\* The int out is the float cell (in tenths) with its fraction cut off.
IsTruncationOf(out, tenths) ==
    /\ out.t = "int"
    /\ IF tenths >= 0
       THEN 10 * out.n <= tenths /\ tenths < 10 * out.n + 10
       ELSE 10 * out.n >= tenths /\ tenths > 10 * out.n - 10

\* C3 as stated: every numeric cell (int, float or numeric-looking string)
\* of a recorded row yields an integer field, except bidonmultiformat, which
\* is the boolean truthiness of its cell.
C3_NumericCellsBecomeIntegers ==
    \A e \in Entries(mapping) : \A b \in DOMAIN e.config :
        \A p \in DOMAIN e.config[b] :
            LET cell == SourceRow(e)[bidder_columns[b][p]]
                out  == e.config[b][p]
            IN  IF p = "bidonmultiformat"
                THEN out = BoolV(Truthy(cell))
                ELSE NumericCell(cell) => out.t = "int"

\* C3 amended: an int cell is kept, a float cell becomes the integer left
\* by cutting its fraction, a string cell (numeric-looking or not) is kept
\* as the string it is; bidonmultiformat is the truthiness of its cell.
C3_IntAndFloatCellsBecomeIntegers ==
    \A e \in Entries(mapping) : \A b \in DOMAIN e.config :
        \A p \in DOMAIN e.config[b] :
            LET cell == SourceRow(e)[bidder_columns[b][p]]
                out  == e.config[b][p]
            IN  IF p = "bidonmultiformat"
                THEN out = BoolV(Truthy(cell))
                ELSE /\ cell.t = "int" => out = cell
                     /\ cell.t = "float" => IsTruncationOf(out, cell.n)
                     /\ cell.t = "str" => out = cell

\* C3's case: a float accountId recorded as an integer beside a
\* numeric-looking string siteId recorded as a string.
C3_Witness ==
    \E e \in Entries(mapping) :
        /\ SourceRow(e)[bidder_columns["rubicon"]["accountId"]] = FloatV(25)
        /\ SourceRow(e)[bidder_columns["rubicon"]["siteId"]] = StrV(<<"7">>)
        /\ e.config["rubicon"]["accountId"] = IntV(2)
        /\ e.config["rubicon"]["siteId"] = StrV(<<"7">>)

\* C9: every adUnits entry has a bidder key and every bidder parameter set
\* has a parameter, in the mapping under construction, the returned one and
\* the written one; a row without a non-empty bidder cell creates no key.
C9_NoEmptyEntries ==
    /\ \A m \in {mapping, result, out_file.content} : \A e \in Entries(m) :
           /\ DOMAIN e.config # {}
           /\ \A b \in DOMAIN e.config : DOMAIN e.config[b] # {}
    /\ \A e \in Entries(mapping) : RowHasData(SourceRow(e))

\* C9's case: a row naming a slot with only a whitespace bidder cell was
\* scanned and left no key, beside a recorded ad unit.
C9_Witness ==
    /\ pc = "scan"
    /\ Len(mapping.adUnits) >= 1
    /\ \E s \in DOMAIN first :
          /\ \E c \in ParamCols : first[s].row[c] = StrV(<<" ">>)
          /\ ~RowHasData(first[s].row)
          /\ \A e \in Entries(mapping) : e.slot # s

\* C4: scanning a row whose slot-pattern cell is None, the empty string or
\* the header text leaves adUnits as it was, whatever the bidder cells hold.
C4_SkippedRowLeavesAdUnits ==
    [][(/\ pc = "scan"
        /\ pos <= Len(ScanRows)
        /\ slot_pattern' \in {NoneV, StrV(<<>>), StrV(HeaderText)})
          => mapping'.adUnits = mapping.adUnits]_vars

\* C4's case: a header-text row with a non-empty bidder cell was just
\* scanned, after an ad unit had been recorded.
C4_Witness ==
    /\ pc = "scan"
    /\ slot_pattern = StrV(HeaderText)
    /\ rowHadData
    /\ Len(mapping.adUnits) = 1

\* The publisher record of the claim.
FixedPublisher ==
    [publisherId    |-> "icisic-media",
     domain         |-> "totalprosports.com",
     defaultBidders |-> <<"rubicon", "kargo", "sovrn", "oms", "aniview",
                          "pubmatic", "triplelift">>]

\* C5: wherever a mapping exists (under construction, returned, written)
\* its publisher is the fixed record with the seven default bidders in
\* order, whichever bidders adUnits holds.
C5_PublisherFixed ==
    /\ mapping # NoMapping => mapping.publisher = FixedPublisher
    /\ result # NoMapping => result.publisher = FixedPublisher
    /\ out_file.written => out_file.content.publisher = FixedPublisher

\* C5's case: the run ended with a mapping whose only bidder is kargo.
C5_Witness ==
    /\ pc = "done"
    /\ out_file.written
    /\ AllBidders(result.adUnits) = {"kargo"}

\* C6 as stated, a populated row being one with a cell set: the keys of
\* adUnits number the distinct slot patterns of the populated rows, and with
\* exactly three populated rows, two patterns and one duplicate, there are
\* two keys, each built from the first row of its pattern.
C6_KeysAreDistinctPatterns ==
    AtReturn =>
        /\ Len(mapping.adUnits) = Cardinality(DOMAIN first)
        /\ (Cardinality(populated) = 3 /\ Cardinality(DOMAIN first) = 2
                /\ Cardinality(repeated) = 1)
              => /\ Len(mapping.adUnits) = 2
                 /\ \A e \in Entries(mapping) :
                       producer[e.slot].row_idx = first[e.slot].row_idx

\* C6 amended, counting the rows that name a slot and have a non-empty
\* bidder cell: the keys of adUnits number the distinct slot patterns of
\* those rows, and with exactly three of them, two patterns and one
\* duplicate, there are two keys, each built from the first such row of its
\* pattern and none from the duplicate.
C6_KeysAreDistinctDataPatterns ==
    pc = "scan" =>
        /\ Len(mapping.adUnits) = Cardinality(DOMAIN firstData)
        /\ {e.slot : e \in Entries(mapping)} = DOMAIN firstData
        /\ (Cardinality(dataRows) = 3 /\ Cardinality(DOMAIN firstData) = 2)
              => Len(mapping.adUnits) = 2
        /\ \A e \in Entries(mapping) :
              producer[e.slot].row_idx = firstData[e.slot].row_idx

\* C6's case: three data rows, two patterns, the loop over.
C6_Witness ==
    /\ AtReturn
    /\ Cardinality(dataRows) = 3
    /\ populated = dataRows
    /\ Cardinality(DOMAIN firstData) = 2
    /\ Len(mapping.adUnits) = 2

\* The summary: the count line, the sorted bidders line and the sample.
SummaryPrinted ==
    /\ Len(stdout) = 5
    /\ stdout[2] = Line("count", Len(result.adUnits), <<>>)
    /\ stdout[3].line = "bidders"
    /\ stdout[5].line = "sample"

\* C7: once convert_excel_to_json has returned its mapping, the run ends
\* with the mapping written to the output file, the summary printed and
\* exit status 0, whatever the sheet held.
C7_RunSucceeds ==
    (pc \in {"done", "fault"} /\ result # NoMapping)
        => /\ exit_status = 0
           /\ out_file.written /\ out_file.content = result
           /\ SummaryPrinted

\* C8: with an unreadable workbook or no PLACEMENTS sheet the run never
\* builds, returns or writes a mapping, never opens the output file and
\* prints nothing; where it has stopped, it stopped in the fault state with
\* a non-zero status.
C8_LoadFaultBeforeOutput ==
    (~workbook.readable \/ ~workbook.has_sheet)
        => /\ pc \in {"load", "get_sheet", "fault"}
           /\ mapping = NoMapping /\ result = NoMapping
           /\ out_file = NoFile
           /\ stdout = <<>>
           /\ pc = "fault" => exit_status = 1
           /\ exit_status # 0
           /\ (~workbook.readable) => pc # "get_sheet"

\* C8's case: the workbook loaded, the sheet is missing, the run faulted.
C8_Witness ==
    pc = "fault" /\ workbook.readable /\ ~workbook.has_sheet

\* C10 as stated: two worksheets that agree on the compared cells end the
\* same way with identical mappings.
C10_SameCellsSameMapping ==
    (pc \in {"returned", "faulted"})
        => (pc = twin.pc /\ mapping = twin.mapping)

\* C10 amended: two worksheets that agree on the compared cells and both
\* reach column R (max_column >= 18) are converted in step to identical
\* mappings, and neither conversion faults.
C10_WideSheetsSameMapping ==
    (/\ twin.pc # "none"
     /\ workbook.max_column >= LastParamCol
     /\ twin.max_column >= LastParamCol)
        => /\ pc = twin.pc
           /\ pc \in {"scan", "returned"}
           /\ mapping = twin.mapping
           /\ pc = "returned" => result = twin.mapping

\* C10's case: both conversions returned two ad units from sheets of
\* different widths that differ in a cell outside the compared columns.
C10_Witness ==
    /\ pc = "returned" /\ twin.pc = "returned"
    /\ twin.differs
    /\ workbook.max_column # twin.max_column
    /\ Len(result.adUnits) = 2

====
